---- MODULE Spec2Model ----
(***************************************************************************)
(* Form-field bindings of indico/react/forms (fields.jsx) and the          *)
(* add-file-type dialog of the editing module.                             *)
(*                                                                         *)
(* React components are pure functions of their props: a render is an      *)
(* action that stores what the component computed from the props it was    *)
(* handed.  The form-state engine (react-final-form) owns the field        *)
(* binding state `meta` and is the environment: it may hand the adapter    *)
(* any combination of flags.                                               *)
(***************************************************************************)
EXTENDS Integers, Sequences, FiniteSets, TLC

VARIABLES
  \* ---- FormFieldAdapter
  props,              \* caller props of the adapter
  meta,               \* field binding state supplied by the engine
  errorMessage,       \* `let errorMessage`
  showErrorPopup,     \* `const showErrorPopup`
  field,              \* the rendered <Form.Field> / <Component> props
  events,             \* native change events emitted by the wrapped component
  inputOnChangeCalls  \* argument lists of the calls made to input.onChange

adapterVars == <<props, meta, errorMessage, showErrorPopup, field, events, inputOnChangeCalls>>

VARIABLES
  \* ---- FinalField
  ffProps,            \* props of FinalField: required, validate (in ...rest), onChange
  fieldElement,       \* props received by final-form's <Field>
  subscribed,         \* whether an <OnChange> listener is rendered
  value,              \* the field value last seen by the listener
  stream,             \* the initial value followed by every value notified
  notifications,      \* <<value, prev>> pairs delivered to the listener's child
  onChangeCalls       \* <<value, prev>> argument lists of the caller's onChange

finalFieldVars == <<ffProps, fieldElement, subscribed, value, stream, notifications, onChangeCalls>>

VARIABLES
  \* ---- FinalSubmitButton
  formState,          \* form-wide state delivered by <FormSpy>
  submitButton        \* the rendered <Form.Button>

buttonVars == <<formState, submitButton>>

VARIABLES
  \* ---- FileTypeModal
  onCloseProp,        \* whether the caller supplied onClose
  fprops,             \* render props of <FinalForm>: submitting, and the form state behind it
  modal,              \* the rendered dialog: its controls
  handleSubmitCalls,  \* number of calls of handleSubmit (the form's onSubmit)
  onCloseCalls        \* number of calls of onClose

modalVars == <<onCloseProp, fprops, modal, handleSubmitCalls, onCloseCalls>>

VARIABLES
  \* ---- page bootstrap
  document,           \* the page: whether #editing-filetypes exists, its data-event-id
  handler,            \* state of the DOMContentLoaded handler
  mounted             \* what ReactDOM.render was called with

bootVars == <<document, handler, mounted>>

vars == <<adapterVars, finalFieldVars, buttonVars, modalVars, bootVars>>

\* What each component leaves alone: the variables of the other components.
outsideForm       == <<finalFieldVars, modalVars, bootVars>>
outsideAdapter    == <<finalFieldVars, buttonVars, modalVars, bootVars>>
outsideFinalField == <<adapterVars, buttonVars, modalVars, bootVars>>
outsideModal      == <<adapterVars, finalFieldVars, buttonVars, bootVars>>
outsideBoot       == <<adapterVars, finalFieldVars, buttonVars, modalVars>>

----------------------------------------------------------------------------
(* JavaScript values *)

Null == "<null>"

\* JS truthiness of a message value: null/undefined and "" are falsy.
Truthy(x) == x # Null /\ x # ""

----------------------------------------------------------------------------
(* FormFieldAdapter *)

\* Local-validation messages and submission messages are distinct values.
Errors       == {Null, "", "This field is required"}
SubmitErrors == {Null, "", "Name already in use"}

MetaDomain ==
  [touched |-> BOOLEAN, error |-> Errors, submitError |-> SubmitErrors,
   submitting |-> BOOLEAN, dirty |-> BOOLEAN, dirtySinceLastSubmit |-> BOOLEAN,
   active |-> BOOLEAN]

\* getValue: none (FormFieldAdapter used directly), or the extraction
\* functions of RadioAdapter/DropdownAdapter and CheckboxAdapter.
GetValues == {Null, "value", "checked"}

\* fieldProps is spread last into <Form.Field>; only a `disabled` key matters here.
FieldPropsSet == {{}, {<<"disabled", FALSE>>}}

AdapterProps ==
  [required : BOOLEAN, disabled : BOOLEAN, hideValidationError : BOOLEAN,
   hideErrorWhileActive : BOOLEAN, getValue : {Null}, fieldProps : FieldPropsSet]

\* Branch 1 of the error selection: `touched && error && (dirty || required)`.
LocalBranch(m, p) == m.touched /\ Truthy(m.error) /\ (m.dirty \/ p.required)

\* Branch 2: `submitError && !dirtySinceLastSubmit && !submitting`.
SubmitBranch(m) == Truthy(m.submitError) /\ ~m.dirtySinceLastSubmit /\ ~m.submitting

ErrorMessageIgnoringHide(m, p) ==
  IF LocalBranch(m, p) THEN m.error
  ELSE IF SubmitBranch(m) THEN m.submitError
  ELSE Null

ErrorMessageFallThrough(m, p) ==
  IF LocalBranch(m, p) /\ ~p.hideValidationError THEN m.error
  ELSE IF SubmitBranch(m) THEN m.submitError
  ELSE Null

ErrorMessageStaleSubmit(m, p) ==
  IF LocalBranch(m, p)
    THEN (IF ~p.hideValidationError THEN m.error ELSE Null)
  ELSE IF Truthy(m.submitError) /\ ~m.submitting THEN m.submitError
  ELSE Null

ErrorMessage(m, p) ==
  IF LocalBranch(m, p)
    THEN (IF ~p.hideValidationError THEN m.error ELSE Null)
  ELSE IF SubmitBranch(m) THEN m.submitError
  ELSE Null

ShowErrorPopupIgnoringActive(msg, m, p) == Truthy(msg)

ShowErrorPopup(msg, m, p) == Truthy(msg) /\ (~p.hideErrorWhileActive \/ ~m.active)

\* `disabled={disabled || submitting}` on the wrapped component (after the spreads).
ComponentDisabled(m, p) == p.disabled \/ m.submitting

\* `disabled={disabled || submitting}` on <Form.Field>, then `{...fieldProps}`.
FormFieldDisabled(m, p) ==
  IF \E kv \in p.fieldProps : kv[1] = "disabled"
    THEN (CHOOSE kv \in p.fieldProps : kv[1] = "disabled")[2]
    ELSE p.disabled \/ m.submitting

Render(m, p) ==
  [required |-> p.required,
   disabled |-> FormFieldDisabled(m, p),
   error |-> Truthy(ErrorMessage(m, p)),
   componentDisabled |-> ComponentDisabled(m, p)]

\* One render of FormFieldAdapter with props p and binding state m.
FormFieldAdapter(m, p) ==
  /\ props' = p
  /\ meta' = m
  /\ errorMessage' = ErrorMessage(m, p)
  /\ showErrorPopup' = ShowErrorPopup(ErrorMessage(m, p), m, p)
  /\ field' = Render(m, p)

\* The binding state of a field the engine has just registered: not yet
\* focused, edited or submitted; validation has run on its initial value.
FreshMetas ==
  [touched : {FALSE}, error : Errors, submitError : {Null}, submitting : {FALSE},
   dirty : {FALSE}, dirtySinceLastSubmit : {FALSE}, active : {FALSE}]

\* First render: any caller props, a freshly registered field.
InitAdapter ==
  /\ props \in AdapterProps
  /\ meta \in FreshMetas
  /\ errorMessage = ErrorMessage(meta, props)
  /\ showErrorPopup = ShowErrorPopup(errorMessage, meta, props)
  /\ field = Render(meta, props)
  /\ events = <<>>
  /\ inputOnChangeCalls = <<>>

----------------------------------------------------------------------------
(* FinalSubmitButton *)

FormStates == [hasValidationErrors : BOOLEAN, pristine : BOOLEAN, submitting : BOOLEAN]

FormButtonIgnoringPristine(f) ==
  [disabled |-> f.hasValidationErrors \/ f.submitting,
   loading |-> f.submitting]

\* Props of the <Form.Button> rendered for form state f.
FormButton(f) ==
  [disabled |-> f.hasValidationErrors \/ f.pristine \/ f.submitting,
   loading |-> f.submitting]

\* One render of FinalSubmitButton's FormSpy child.
FinalSubmitButton(f) ==
  /\ formState' = f
  /\ submitButton' = FormButton(f)

\* A form with one adapter-wrapped field and a submit button: `submitting`
\* is one engine value, seen by both.
InitForm ==
  /\ InitAdapter
  /\ formState \in FormStates
  /\ formState.pristine
  /\ formState.submitting = meta.submitting
  /\ submitButton = FormButton(formState)

\* The engine changes one entry of the binding state; the adapter re-renders,
\* and so does the button when the entry is `submitting`.
MetaUpdate ==
  /\ \E k \in DOMAIN MetaDomain :
       \E v \in MetaDomain[k] :
         /\ v # meta[k]
         /\ FormFieldAdapter([meta EXCEPT ![k] = v], props)
         /\ FinalSubmitButton([formState EXCEPT !.submitting = meta'.submitting])
  /\ UNCHANGED <<events, inputOnChangeCalls, outsideForm>>

\* The engine changes a form-wide flag and the FormSpy child re-renders.
FormSpyUpdate ==
  /\ \E k \in {"hasValidationErrors", "pristine"} :
       FinalSubmitButton([formState EXCEPT ![k] = ~formState[k]])
  /\ UNCHANGED <<adapterVars, outsideForm>>

----------------------------------------------------------------------------
(* FormFieldAdapter.handleChange *)

MaxEvents == 2

Data == [value : {"a", "b"}, checked : BOOLEAN]

\* Native change events: (event) or (event, data).  Radio, Checkbox and
\* Dropdown, the components the extraction functions are used with, always
\* emit (event, data).
NativeEvents(getValue) ==
  IF getValue = Null
    THEN {<<"event">>} \cup {<<"event", d>> : d \in {[value |-> "a", checked |-> TRUE]}}
    ELSE {<<"event", d>> : d \in Data}

\* `(__, {value}) => value` and `(__, {checked}) => checked`.
GetValue(getValue, args) ==
  IF getValue = "value" THEN args[2].value ELSE args[2].checked

HandleChangeFirstArgOnly(getValue, args) ==
  IF getValue # Null
    THEN << <<GetValue(getValue, args)>> >>
    ELSE << <<args[1]>> >>

\* The calls handleChange makes to input.onChange, as argument lists.
HandleChange(getValue, args) ==
  IF getValue # Null
    THEN << <<GetValue(getValue, args)>> >>
    ELSE << args >>

\* First render of an adapter with any extraction function and default props.
InitChange ==
  /\ props \in [required : {FALSE}, disabled : {FALSE}, hideValidationError : {FALSE},
                 hideErrorWhileActive : {FALSE}, getValue : GetValues, fieldProps : {{}}]
  /\ meta \in FreshMetas
  /\ errorMessage = ErrorMessage(meta, props)
  /\ showErrorPopup = ShowErrorPopup(errorMessage, meta, props)
  /\ field = Render(meta, props)
  /\ events = <<>>
  /\ inputOnChangeCalls = <<>>

\* The wrapped component emits a native change event.
ComponentOnChange ==
  /\ Len(events) < MaxEvents
  /\ \E args \in NativeEvents(props.getValue) :
       /\ events' = Append(events, args)
       /\ inputOnChangeCalls' = inputOnChangeCalls \o HandleChange(props.getValue, args)
  /\ UNCHANGED <<props, meta, errorMessage, showErrorPopup, field, outsideAdapter>>

----------------------------------------------------------------------------
(* FinalField: props handed to <Field> *)

\* A prop value: a key that is absent, present with undefined or null, or a
\* validation function, given as the list of rules it runs in turn.
Absent        == [kind |-> "absent", rules |-> <<>>]
Undefined     == [kind |-> "undefined", rules |-> <<>>]
NullValue     == [kind |-> "null", rules |-> <<>>]
Rule(name)    == [kind |-> "function", rules |-> <<name>>]

\* JS truthiness of a prop value (a missing key reads as undefined).
TruthyProp(v) == v.kind = "function"

\* validators.required: the "value must be present" rule.
ValidatorsRequired == Rule("required")

\* validators.chain(a, b): runs each in turn and returns the first failure.
ValidatorsChain(a, b) == [kind |-> "function", rules |-> a.rules \o b.rules]

CallerValidate == Rule("caller")

ValidateProps == {Absent, Undefined, NullValue, CallerValidate}

FinalFieldProps == [required : BOOLEAN, validate : ValidateProps, onChange : BOOLEAN]

\* `{...a} {...b}` for one key: an own key of b wins, whatever its value.
Spread(a, b) == IF b.kind # "absent" THEN b ELSE a

\* extraProps.validate after `if (required)` and the chaining `if`.
ExtraPropsValidate(p) ==
  LET afterRequired == IF p.required THEN ValidatorsRequired ELSE Absent
  IN IF TruthyProp(afterRequired) /\ TruthyProp(p.validate)
       THEN ValidatorsChain(afterRequired, p.validate)
       ELSE afterRequired

\* rest.validate after `delete rest.validate` in the chaining `if`.
RestValidate(p) ==
  LET afterRequired == IF p.required THEN ValidatorsRequired ELSE Absent
  IN IF TruthyProp(afterRequired) /\ TruthyProp(p.validate)
       THEN Absent
       ELSE p.validate

\* Props of <Field ... {...extraProps} {...rest} />.
FieldElement(p) ==
  [validate |-> Spread(ExtraPropsValidate(p), RestValidate(p)),
   required |-> p.required]

\* `{onChange && <OnChange ...>}`.
Subscribed(p) == p.onChange

----------------------------------------------------------------------------
(* FinalField: change notification *)

MaxNotifications == 4

\* Field values: the primitives 1, 2, 3 (id 0) and two distinct objects
\* (id > 0) with the same content.
Prim(v) == [id |-> 0, val |-> v]

Values == {Prim(v) : v \in {1, 2, 3}} \cup {[id |-> i, val |-> 1] : i \in {1, 2}}

\* lodash isEqual: deep comparison of two values.
IsEqual(a, b) == (a.id = 0) = (b.id = 0) /\ a.val = b.val

OnChangeChildIdentity(v, prev) == IF v # prev THEN << <<v, prev>> >> ELSE <<>>

\* The child of <OnChange>: the calls it makes to the caller's onChange.
OnChangeChild(v, prev) ==
  IF ~IsEqual(v, prev) THEN << <<v, prev>> >> ELSE <<>>

\* One render of FinalField with props p.
FinalField(p) ==
  /\ ffProps' = p
  /\ fieldElement' = FieldElement(p)
  /\ subscribed' = Subscribed(p)

InitFinalField ==
  /\ ffProps \in FinalFieldProps
  /\ fieldElement = FieldElement(ffProps)
  /\ subscribed = Subscribed(ffProps)
  /\ value \in Values
  /\ stream = <<value>>
  /\ notifications = <<>>
  /\ onChangeCalls = <<>>

\* The parent re-renders FinalField with one prop changed.
FinalFieldRerender ==
  /\ \E p \in FinalFieldProps :
       /\ Cardinality({k \in DOMAIN p : p[k] # ffProps[k]}) = 1
       /\ FinalField(p)
  /\ UNCHANGED <<value, stream, notifications, onChangeCalls, outsideFinalField>>

\* The listener delivers a value notification (value, previous) to its child.
Notify ==
  /\ subscribed
  /\ Len(notifications) < MaxNotifications
  /\ \E v \in Values :
       /\ notifications' = Append(notifications, <<v, value>>)
       /\ onChangeCalls' = onChangeCalls \o OnChangeChild(v, value)
       /\ stream' = Append(stream, v)
       /\ value' = v
  /\ UNCHANGED <<ffProps, fieldElement, subscribed, outsideFinalField>>

\* FinalField is not part of the run.
InitFinalFieldIdle ==
  /\ ffProps = [required |-> FALSE, validate |-> Absent, onChange |-> FALSE]
  /\ fieldElement = FieldElement(ffProps)
  /\ subscribed = Subscribed(ffProps)
  /\ value = Prim(1)
  /\ stream = <<value>>
  /\ notifications = <<>>
  /\ onChangeCalls = <<>>

\* The adapter is not part of the run.
InitAdapterIdle ==
  /\ props = [required |-> FALSE, disabled |-> FALSE, hideValidationError |-> FALSE,
              hideErrorWhileActive |-> FALSE, getValue |-> Null, fieldProps |-> {}]
  /\ meta = [touched |-> FALSE, error |-> Null, submitError |-> Null, submitting |-> FALSE,
             dirty |-> FALSE, dirtySinceLastSubmit |-> FALSE, active |-> FALSE]
  /\ errorMessage = ErrorMessage(meta, props)
  /\ showErrorPopup = ShowErrorPopup(errorMessage, meta, props)
  /\ field = Render(meta, props)
  /\ events = <<>>
  /\ inputOnChangeCalls = <<>>

\* The submit button is not part of the run.
InitButtonIdle ==
  /\ formState = [hasValidationErrors |-> FALSE, pristine |-> TRUE, submitting |-> FALSE]
  /\ submitButton = FormButton(formState)

----------------------------------------------------------------------------
(* FileTypeModal *)

MaxSubmits == 3
MaxCloses == 3

\* <FinalInput name="name" required />: the props FinalField is rendered with,
\* and the props the adapter receives for it.
NameFieldProps == [required |-> TRUE, validate |-> Absent, onChange |-> FALSE]

NameAdapterProps ==
  [required |-> FieldElement(NameFieldProps).required, disabled |-> FALSE,
   hideValidationError |-> FALSE, hideErrorWhileActive |-> FALSE,
   getValue |-> Null, fieldProps |-> {}]

\* The part of the name field's binding state the dialog's controls depend on.
NameMeta(f) ==
  [touched |-> FALSE, error |-> Null, submitError |-> Null, submitting |-> f.submitting,
   dirty |-> ~f.pristine, dirtySinceLastSubmit |-> FALSE, active |-> FALSE]

ModalNoSubmittingGuard(f) ==
  [closeIcon |-> TRUE,
   closeOnDimmerClick |-> TRUE,
   cancelDisabled |-> FALSE,
   submit |-> FormButton(f),
   input |-> Render(NameMeta(f), NameAdapterProps)]

\* The controls FileTypeModal renders for form state f.
Modal(f) ==
  [closeIcon |-> ~f.submitting,
   closeOnDimmerClick |-> ~f.submitting,
   cancelDisabled |-> f.submitting,
   submit |-> FormButton(f),
   input |-> Render(NameMeta(f), NameAdapterProps)]

\* One render of FileTypeModal's FinalForm child.
FileTypeModal(f) ==
  /\ fprops' = f
  /\ modal' = Modal(f)

\* The dialog opens on an empty form: the required name is missing.
InitModal ==
  /\ onCloseProp \in BOOLEAN
  /\ fprops = [hasValidationErrors |-> "required" \in
                  {FieldElement(NameFieldProps).validate.rules[i] :
                     i \in 1..Len(FieldElement(NameFieldProps).validate.rules)},
               pristine |-> TRUE, submitting |-> FALSE]
  /\ modal = Modal(fprops)
  /\ handleSubmitCalls = 0
  /\ onCloseCalls = 0

\* The user edits the name through the input; the engine recomputes the flags.
EditName ==
  /\ ~modal.input.componentDisabled
  /\ \E pr \in BOOLEAN, hv \in BOOLEAN :
       FileTypeModal([fprops EXCEPT !.pristine = pr, !.hasValidationErrors = hv])
  /\ UNCHANGED <<onCloseProp, handleSubmitCalls, onCloseCalls, outsideModal>>

\* fprops.handleSubmit: the engine starts a submission and calls handleSubmit;
\* it starts none while validation fails.
StartSubmit ==
  /\ handleSubmitCalls < MaxSubmits
  /\ ~fprops.hasValidationErrors
  /\ FileTypeModal([fprops EXCEPT !.submitting = TRUE])
  /\ handleSubmitCalls' = handleSubmitCalls + 1
  /\ UNCHANGED <<onCloseProp, onCloseCalls, outsideModal>>

\* The user clicks the submit button.
ClickSubmit ==
  /\ ~modal.submit.disabled
  /\ StartSubmit

\* The user presses Enter in the name input (<Form onSubmit>).
PressEnter ==
  /\ ~modal.input.componentDisabled
  /\ StartSubmit

\* The promise of `async formData => { console.log(formData); }` resolves.
HandleSubmitResolves ==
  /\ fprops.submitting
  /\ FileTypeModal([fprops EXCEPT !.submitting = FALSE])
  /\ UNCHANGED <<onCloseProp, handleSubmitCalls, onCloseCalls, outsideModal>>

\* onClose is called, when the caller supplied one.
OnClose ==
  /\ onCloseProp
  /\ onCloseCalls < MaxCloses
  /\ onCloseCalls' = onCloseCalls + 1
  /\ UNCHANGED <<onCloseProp, fprops, modal, handleSubmitCalls, outsideModal>>

ClickCancel == ~modal.cancelDisabled /\ OnClose

ClickCloseIcon == modal.closeIcon /\ OnClose

ClickDimmer == modal.closeOnDimmerClick /\ OnClose

\* The dialog is not part of the run.
InitModalIdle ==
  /\ onCloseProp = FALSE
  /\ fprops = [hasValidationErrors |-> TRUE, pristine |-> TRUE, submitting |-> FALSE]
  /\ modal = Modal(fprops)
  /\ handleSubmitCalls = 0
  /\ onCloseCalls = 0

----------------------------------------------------------------------------
(* Page bootstrap: the DOMContentLoaded handler *)

MaxAttrLen == 3

Digits == {"1", "2"}
Chars == Digits \cup {"a", "-", " "}

DigitValue(c) == IF c = "1" THEN 1 ELSE 2

RECURSIVE Strings(_)
Strings(n) ==
  IF n = 0 THEN {<<>>}
  ELSE Strings(n - 1) \cup {Append(t, c) : t \in {u \in Strings(n - 1) : Len(u) = n - 1}, c \in Chars}

\* data-event-id: missing, or a string of characters.
NoAttr == [present |-> FALSE, text |-> <<>>]
Attrs == {NoAttr} \cup {[present |-> TRUE, text |-> t] : t \in Strings(MaxAttrLen)}

Documents ==
  {[element |-> FALSE, attr |-> NoAttr]} \cup {[element |-> TRUE, attr |-> a] : a \in Attrs}

NaN == [nan |-> TRUE, n |-> 0]
Number(k) == [nan |-> FALSE, n |-> k]

RECURSIVE SkipSpace(_)
SkipSpace(t) == IF t # <<>> /\ Head(t) = " " THEN SkipSpace(Tail(t)) ELSE t

\* The value of the leading digits of t after the digits read so far (acc, any).
RECURSIVE ReadDigits(_, _, _)
ReadDigits(t, acc, any) ==
  IF t # <<>> /\ Head(t) \in Digits
    THEN ReadDigits(Tail(t), 10 * acc + DigitValue(Head(t)), TRUE)
    ELSE IF any THEN Number(acc) ELSE NaN

\* parseInt(text, 10): leading white space, an optional sign, then digits up
\* to the first other character; NaN without a digit.
ParseInt(a) ==
  IF ~a.present THEN NaN
  ELSE LET t == SkipSpace(a.text)
           neg == t # <<>> /\ Head(t) = "-"
           r == ReadDigits(IF neg THEN Tail(t) ELSE t, 0, FALSE)
       IN IF r.nan THEN NaN ELSE Number(IF neg THEN 0 - r.n ELSE r.n)

NothingMounted == [done |-> FALSE, eventId |-> NaN]

\* The handler's outcome on page d, statement by statement.
Handler(d) ==
  LET fileTypeInterface == d.element
  IN IF ~fileTypeInterface
       \* `fileTypeInterface.dataset` on null: a TypeError rejects the async handler
       THEN [handler |-> "rejected", mounted |-> NothingMounted]
       ELSE LET eventId == ParseInt(d.attr)
            IN IF ~fileTypeInterface
                 THEN [handler |-> "returned", mounted |-> NothingMounted]
                 ELSE [handler |-> "returned", mounted |-> [done |-> TRUE, eventId |-> eventId]]

InitBoot ==
  /\ document \in Documents
  /\ handler = "pending"
  /\ mounted = NothingMounted

DOMContentLoaded ==
  /\ handler = "pending"
  /\ handler' = Handler(document).handler
  /\ mounted' = Handler(document).mounted
  /\ UNCHANGED <<document, outsideBoot>>

\* The bootstrap is not part of the run.
InitBootIdle ==
  /\ document = [element |-> FALSE, attr |-> NoAttr]
  /\ handler = "pending"
  /\ mounted = NothingMounted

----------------------------------------------------------------------------
(* Specifications *)

NextForm ==
  \/ MetaUpdate
  \/ FormSpyUpdate

InitSpecForm == InitForm /\ InitFinalFieldIdle /\ InitModalIdle /\ InitBootIdle

SpecForm == InitSpecForm /\ [][NextForm]_vars

NextChange ==
  \/ MetaUpdate
  \/ ComponentOnChange

InitSpecChange ==
  InitChange /\ InitFinalFieldIdle /\ InitButtonIdle /\ InitModalIdle /\ InitBootIdle

SpecChange == InitSpecChange /\ [][NextChange]_vars

NextFinalField ==
  \/ FinalFieldRerender
  \/ Notify

InitSpecFinalField ==
  InitFinalField /\ InitAdapterIdle /\ InitButtonIdle /\ InitModalIdle /\ InitBootIdle

SpecFinalField == InitSpecFinalField /\ [][NextFinalField]_vars

NextModal ==
  \/ EditName
  \/ ClickSubmit
  \/ PressEnter
  \/ HandleSubmitResolves
  \/ ClickCancel
  \/ ClickCloseIcon
  \/ ClickDimmer

InitSpecModal ==
  InitModal /\ InitAdapterIdle /\ InitFinalFieldIdle /\ InitButtonIdle /\ InitBootIdle

SpecModal == InitSpecModal /\ [][NextModal]_vars

NextBoot == DOMContentLoaded

InitSpecBoot ==
  InitBoot /\ InitAdapterIdle /\ InitFinalFieldIdle /\ InitButtonIdle /\ InitModalIdle

SpecBoot == InitSpecBoot /\ [][NextBoot]_vars

----------------------------------------------------------------------------
(* Properties *)

\* "is set", for a message: a value the code's conditions take as present.
IsSet(x) == x \notin {Null, ""}

\* The condition of the local-validation branch, on the current props and state.
LocalValidationApplies ==
  meta.touched /\ IsSet(meta.error) /\ (meta.dirty \/ props.required)

\* The condition of the submission branch.
SubmissionApplies ==
  IsSet(meta.submitError) /\ ~meta.dirtySinceLastSubmit /\ ~meta.submitting

C2_FirstMatchWins ==
  /\ (LocalValidationApplies /\ ~props.hideValidationError) => errorMessage = meta.error
  /\ (LocalValidationApplies /\ props.hideValidationError) => errorMessage = Null
  /\ (~LocalValidationApplies /\ SubmissionApplies) => errorMessage = meta.submitError
  /\ (~LocalValidationApplies /\ ~SubmissionApplies) => errorMessage = Null

C2_Witness ==
  /\ LocalValidationApplies
  /\ props.hideValidationError
  /\ SubmissionApplies
  /\ errorMessage = Null

\* The submit error is the selected message.
SubmitErrorSelected == IsSet(meta.submitError) /\ errorMessage = meta.submitError

C5_OnlyFirstArgumentForwarded ==
  /\ Len(inputOnChangeCalls) = Len(events)
  /\ \A i \in 1..Len(events) :
       /\ Len(inputOnChangeCalls[i]) = 1
       /\ props.getValue = Null => inputOnChangeCalls[i][1] = events[i][1]
       /\ props.getValue = "value" => inputOnChangeCalls[i][1] = events[i][2].value
       /\ props.getValue = "checked" => inputOnChangeCalls[i][1] = events[i][2].checked

\* C5 amended: one call of input.onChange per native event and no change of the
\* field state; with getValue the single argument is the extracted value,
\* without it all of the event's arguments are forwarded unchanged and in
\* order, the first being the event's raw first argument.
C5_AllArgumentsForwarded ==
  /\ [](/\ Len(inputOnChangeCalls) = Len(events)
        /\ \A i \in 1..Len(events) :
             /\ props.getValue = Null =>
                  /\ Len(inputOnChangeCalls[i]) = Len(events[i])
                  /\ inputOnChangeCalls[i] = events[i]
             /\ props.getValue = "value" =>
                  /\ Len(inputOnChangeCalls[i]) = 1
                  /\ inputOnChangeCalls[i][1] = events[i][2].value
             /\ props.getValue = "checked" =>
                  /\ Len(inputOnChangeCalls[i]) = 1
                  /\ inputOnChangeCalls[i][1] = events[i][2].checked)
  /\ [][events' # events =>
          /\ meta' = meta
          /\ Len(inputOnChangeCalls') = Len(inputOnChangeCalls) + 1]_vars

C5_Witness ==
  /\ props.getValue = Null
  /\ Len(events) = MaxEvents
  /\ Len(events[1]) = 2
  /\ Len(inputOnChangeCalls) = MaxEvents
  /\ Len(inputOnChangeCalls[1]) = 2

\* C6: the popup is open exactly when a message was selected and
\* (hideErrorWhileActive is unset or the field is not active); when the field
\* loses focus with everything else unchanged, a selected message stays the
\* same and its popup is open.
C6_PopupOpenExactlyWhen ==
  /\ [](showErrorPopup <=>
          (errorMessage # Null /\ (~props.hideErrorWhileActive \/ ~meta.active)))
  /\ [][(/\ meta.active
         /\ errorMessage # Null
         /\ meta' = [meta EXCEPT !.active = FALSE]
         /\ props' = props)
          => (showErrorPopup' /\ errorMessage' = errorMessage)]_vars

C6_Witness ==
  /\ props.hideErrorWhileActive
  /\ meta.active
  /\ errorMessage # Null
  /\ ~showErrorPopup

\* C7: the submit button is disabled iff hasValidationErrors, pristine or
\* submitting is true, and shows the loading indicator iff submitting is true.
C7_SubmitButtonState ==
  /\ submitButton.disabled <=>
       (formState.hasValidationErrors \/ formState.pristine \/ formState.submitting)
  /\ submitButton.loading <=> formState.submitting

C7_Witness ==
  /\ ~formState.hasValidationErrors
  /\ formState.pristine
  /\ ~formState.submitting
  /\ submitButton.disabled
  /\ ~submitButton.loading

\* C4 as stated: a required FinalField always hands <Field> a validation rule
\* that starts with the required rule, followed by the caller's rule when the
\* caller passed one, also when the caller's validate prop is null or undefined.
C4_RequiredRuleAlwaysAttached ==
  ffProps.required =>
    /\ fieldElement.validate.kind = "function"
    /\ fieldElement.validate.rules =
         (IF ffProps.validate.kind = "function"
            THEN <<"required", "caller">>
            ELSE <<"required">>)

NotDeepEqual(n) == ~IsEqual(n[1], n[2])

\* C8: onChange is called exactly once, with (value, previous) and in order,
\* for each notification whose values are not deeply equal, and never for one
\* whose values are deeply equal; the stream 1, 1, 2, 2, 3 gives two calls;
\* without onChange nothing is subscribed.
C8_OnChangeOnlyOnRealChange ==
  /\ onChangeCalls = SelectSeq(notifications, NotDeepEqual)
  /\ stream = <<Prim(1), Prim(1), Prim(2), Prim(2), Prim(3)>> =>
       onChangeCalls = << <<Prim(2), Prim(1)>>, <<Prim(3), Prim(2)>> >>
  /\ subscribed <=> ffProps.onChange

C8_Witness ==
  /\ stream = <<Prim(1), Prim(1), Prim(2), Prim(2), Prim(3)>>
  /\ Len(notifications) = 4
  /\ Len(onChangeCalls) = 2

\* C9: while a submission is in flight the input, its Form.Field, the submit
\* button and the Cancel button are disabled, the close icon is not shown and a
\* dimmer click does not close; no submit starts, nothing closes and the form
\* does not change until it resolves; when it resolves they are enabled again
\* (the submit button as far as validation and pristine allow).
C9_NothingEnabledWhileSubmitting ==
  /\ [](fprops.submitting =>
          /\ modal.input.componentDisabled
          /\ modal.input.disabled
          /\ modal.submit.disabled
          /\ modal.cancelDisabled
          /\ ~modal.closeIcon
          /\ ~modal.closeOnDimmerClick)
  /\ [][fprops.submitting =>
          /\ handleSubmitCalls' = handleSubmitCalls
          /\ onCloseCalls' = onCloseCalls
          /\ fprops'.pristine = fprops.pristine
          /\ fprops'.hasValidationErrors = fprops.hasValidationErrors]_vars
  /\ [][(fprops.submitting /\ ~fprops'.submitting) =>
          /\ ~modal'.input.componentDisabled
          /\ ~modal'.input.disabled
          /\ ~modal'.cancelDisabled
          /\ modal'.closeIcon
          /\ modal'.closeOnDimmerClick
          /\ modal'.submit.disabled <=>
               (fprops'.hasValidationErrors \/ fprops'.pristine)]_vars

C9_Witness ==
  /\ fprops.submitting
  /\ handleSubmitCalls = 2
  /\ onCloseCalls = 1
  /\ modal.cancelDisabled

\* C10 as stated: after the handler ran, FileTypeInterface is mounted with the
\* parsed event id when the element exists, and when it does not the handler
\* has returned with nothing mounted and no error raised.
C10_MountsOrReturnsQuietly ==
  handler # "pending" =>
    /\ handler = "returned"
    /\ mounted = (IF document.element
                    THEN [done |-> TRUE, eventId |-> ParseInt(document.attr)]
                    ELSE NothingMounted)

====
